---- MODULE Spec2Model ----
(***************************************************************************)
(* Task queue with retry logic: QueueManager (backend/queue.js), Worker    *)
(* (backend/worker.js) and the execution collaborator PollinationsClient   *)
(* (backend/pollinations.js), as one state machine.                        *)
(*                                                                         *)
(* Node runs every handler to completion on one thread: a handler is one   *)
(* action, and an `await` splits a function into the part before it and    *)
(* the part that runs when the awaited promise settles.                    *)
(*                                                                         *)
(* Not modelled: task.prompt (an immutable opaque input that no operation  *)
(* reads back), error.message (free text derived from error.code), and the *)
(* payload of a result other than its generatedAt stamp.                   *)
(***************************************************************************)
EXTENDS Integers, Sequences, FiniteSets, TLC

VARIABLES
    tasks,               \* QueueManager.tasks: the Map, as its values in insertion order
    currentlyProcessing, \* QueueManager.currentlyProcessing
    sseClients,          \* QueueManager.sseClients: the Set, in insertion order
    isRunning,           \* Worker.isRunning (the two interval timers exist iff TRUE)
    now,                 \* the value Date.now() returns, in ms
    inflight,            \* executions awaiting fetch(): {[id, startTime]}
    intervals,           \* live progressInterval timers of generateImage: {[id, startTime]}
    usedIds,             \* ids uuidv4 has produced so far
    last,                \* the handler that ran last: [op, id, arg, ret]
    published,           \* the events the last handler passed to broadcast(), in order
    sent                 \* what the last handler wrote to each observer, in order

vars == <<tasks, currentlyProcessing, sseClients, isRunning, now, inflight,
          intervals, usedIds, last, published, sent>>

----------------------------------------------------------------------------
(* Bounds of the model *)

\* Task ids uuidv4 can produce (task_<8 hex digits> in the source).
NumIds == 3
Ids == 1 .. NumIds

\* The clock is observed at multiples of TickMs, up to MaxTime ticks.
MaxTime == 1

\* Math.random() is drawn as r / RandDenom for r in 0 .. RandDenom-1.
RandDenom == 16

\* Observers (SSE response objects).
Observers == {"o1", "o2"}

----------------------------------------------------------------------------
(* Configuration set by the QueueManager constructor.  MAX_CONCURRENT and  *)
(* MAX_QUEUE_SIZE are 5 and 100 in the source; they are scaled down here   *)
(* so that the cap and the full queue are reached with NumIds tasks.       *)

MAX_CONCURRENT == 2
MAX_QUEUE_SIZE == 3
BASE_RETRY_DELAY == 2000
MAX_RETRY_DELAY == 60000
MAX_RETRIES == 5
AVERAGE_TASK_TIME == 30000

\* PollinationsClient.timeout
Timeout == 120000

\* One tick of the model's clock.
TickMs == BASE_RETRY_DELAY

\* JavaScript null, for the numeric fields (every timestamp is >= 0).
Null == 0 - 1

----------------------------------------------------------------------------
(* Helpers *)

Range(s) == {s[i] : i \in 1 .. Len(s)}

Min(a, b) == IF a <= b THEN a ELSE b

Max(a, b) == IF a >= b THEN a ELSE b

RECURSIVE Pow2(_)
Pow2(n) == IF n <= 0 THEN 1 ELSE 2 * Pow2(n - 1)

\* Date.now()
DateNow == now

\* Map.has / Map.get / in-place mutation of a stored task / Map.delete
HasTask(ts, id) == \E i \in 1 .. Len(ts) : ts[i].id = id

IndexOf(ts, id) == CHOOSE i \in 1 .. Len(ts) : ts[i].id = id

GetTask(ts, id) == ts[IndexOf(ts, id)]

SetTask(ts, t) == [ts EXCEPT ![IndexOf(ts, t.id)] = t]

DeleteTask(ts, id) == SelectSeq(ts, LAMBDA t : t.id # id)

CountState(ts, s) == Cardinality({i \in 1 .. Len(ts) : ts[i].state = s})

\* An event as sendToClient writes it: its name and the JSON copy of its data.
Event(type, data) == [type |-> type, data |-> data]

\* What a method hands back: the store and the slot counter after it, the
\* events it broadcast in order, and its return value.
Out(ts, cp, events, ret) == [tasks |-> ts, cp |-> cp, events |-> events, ret |-> ret]

----------------------------------------------------------------------------
(* QueueManager: queries *)

getStats(ts) ==
    [pending    |-> CountState(ts, "pending"),
     processing |-> CountState(ts, "processing"),
     retrying   |-> CountState(ts, "retrying"),
     completed  |-> CountState(ts, "completed"),
     failed     |-> CountState(ts, "failed"),
     total      |-> Len(ts)]

\* [...values].sort((a, b) => b.createdAt - a.createdAt): newest first; the sort
\* is stable, so equal createdAt keep their insertion order.
getAllTasks(ts) ==
    LET rank(i) == 1 + Cardinality({j \in 1 .. Len(ts) :
                        \/ ts[j].createdAt > ts[i].createdAt
                        \/ ts[j].createdAt = ts[i].createdAt /\ j < i})
    IN  [p \in 1 .. Len(ts) |-> ts[CHOOSE i \in 1 .. Len(ts) : rank(i) = p]]

\* A faulty variant: a later task with the same createdAt replaces the one kept.
RECURSIVE ScanPending_Mutant(_, _, _)
ScanPending_Mutant(ts, i, oldest) ==
    IF i > Len(ts) THEN oldest
    ELSE ScanPending_Mutant(ts, i + 1,
            IF /\ ts[i].state = "pending"
               /\ (oldest = 0 \/ ts[i].createdAt <= ts[oldest].createdAt)
            THEN i ELSE oldest)

\* The scan of getNextPendingTask: `oldest` is the index kept so far (0: null).
RECURSIVE ScanPending(_, _, _)
ScanPending(ts, i, oldest) ==
    IF i > Len(ts) THEN oldest
    ELSE ScanPending(ts, i + 1,
            IF /\ ts[i].state = "pending"
               /\ (oldest = 0 \/ ts[i].createdAt < ts[oldest].createdAt)
            THEN i ELSE oldest)

\* A faulty variant: the Pending task stored last is returned (LIFO).
getNextPendingTask_Mutant(ts) ==
    LET pending == {i \in 1 .. Len(ts) : ts[i].state = "pending"}
    IN  IF pending = {} THEN 0 ELSE CHOOSE i \in pending : \A j \in pending : j <= i

\* The index of the task returned, 0 for null.
getNextPendingTask(ts) == ScanPending(ts, 1, 0)

\* A faulty variant: one slot more than the cap.
hasCapacity_Mutant(cp) == cp <= MAX_CONCURRENT

hasCapacity(cp) == cp < MAX_CONCURRENT

calculateEstimatedWait(ts) ==
    LET pendingCount == CountState(ts, "pending")
        processingCount == CountState(ts, "processing")
        \* Math.ceil(processingCount / MAX_CONCURRENT)
        effectiveQueueLength ==
            pendingCount + (processingCount + MAX_CONCURRENT - 1) \div MAX_CONCURRENT
    IN  effectiveQueueLength * AVERAGE_TASK_TIME

\* Pending tasks get position * AVERAGE_TASK_TIME, positions by createdAt (stable).
updateEstimatedWaitTimes(ts) ==
    LET position(i) == Cardinality({j \in 1 .. Len(ts) :
                          /\ ts[j].state = "pending"
                          /\ \/ ts[j].createdAt < ts[i].createdAt
                             \/ ts[j].createdAt = ts[i].createdAt /\ j < i})
    IN  [i \in 1 .. Len(ts) |->
            IF ts[i].state = "pending"
            THEN [ts[i] EXCEPT !.estimatedWaitTime = position(i) * AVERAGE_TASK_TIME]
            ELSE ts[i]]

\* A faulty variant: the exponent is the attempt number, not one less.
calculateBackoff_Mutant(retryCount, r) ==
    LET exponentialDelay == BASE_RETRY_DELAY * Pow2(retryCount)
        cappedDelay == Min(exponentialDelay, MAX_RETRY_DELAY)
    IN  (cappedDelay * 8 * RandDenom + cappedDelay * (2 * r - RandDenom))
            \div (8 * RandDenom)

\* A faulty variant: the delay does not grow with the retry count.
calculateBackoff_MutantFlat(retryCount, r) ==
    LET cappedDelay == Min(BASE_RETRY_DELAY, MAX_RETRY_DELAY)
    IN  (cappedDelay * 8 * RandDenom + cappedDelay * (2 * r - RandDenom))
            \div (8 * RandDenom)

\* Math.floor(cappedDelay + cappedDelay * 0.25 * (Math.random() - 0.5)) with
\* Math.random() = r / RandDenom, in exact arithmetic.
calculateBackoff(retryCount, r) ==
    LET exponentialDelay == BASE_RETRY_DELAY * Pow2(retryCount - 1)
        cappedDelay == Min(exponentialDelay, MAX_RETRY_DELAY)
        \* jitter = cappedDelay * (2r - RandDenom) / (8 * RandDenom)
    IN  (cappedDelay * 8 * RandDenom + cappedDelay * (2 * r - RandDenom))
            \div (8 * RandDenom)

\* A faulty variant: every retrying task is returned, due or not.
getTasksReadyForRetry_MutantEarly(ts) ==
    SelectSeq([i \in 1 .. Len(ts) |-> i],
              LAMBDA i : /\ ts[i].state = "retrying"
                         /\ ts[i].nextRetryAt # Null /\ ts[i].nextRetryAt # 0)

\* A faulty variant: the comparison never holds, so no retry is ever due.
getTasksReadyForRetry_Mutant(ts) ==
    SelectSeq([i \in 1 .. Len(ts) |-> i],
              LAMBDA i : /\ ts[i].state = "retrying"
                         /\ ts[i].nextRetryAt # Null /\ ts[i].nextRetryAt # 0
                         /\ ts[i].nextRetryAt > ts[i].nextRetryAt)

\* The indices of the tasks getTasksReadyForRetry returns, in Map order.
getTasksReadyForRetry(ts) ==
    SelectSeq([i \in 1 .. Len(ts) |-> i],
              LAMBDA i : /\ ts[i].state = "retrying"
                         /\ ts[i].nextRetryAt # Null /\ ts[i].nextRetryAt # 0
                         /\ DateNow >= ts[i].nextRetryAt)

----------------------------------------------------------------------------
(* QueueManager: the methods that change the store.  Each takes the store  *)
(* ts and the slot counter cp it runs on and yields Out(...).              *)

\* The record createTask builds.
NewTask(ts, id) ==
    [id |-> id, state |-> "pending", createdAt |-> DateNow, startedAt |-> Null,
     completedAt |-> Null, result |-> Null, error |-> "null", retryCount |-> 0,
     maxRetries |-> MAX_RETRIES, nextRetryAt |-> Null, progress |-> 0,
     estimatedWaitTime |-> calculateEstimatedWait(ts)]

\* A faulty variant: the task is stored before the size is checked.
createTask_Mutant(ts, cp, id) ==
    LET task == NewTask(ts, id)
        ts1 == Append(ts, task)
    IN  IF Len(ts1) > MAX_QUEUE_SIZE
        THEN Out(ts1, cp, <<>>, "QueueFull")
        ELSE Out(ts1, cp,
                 <<Event("task_submitted", task), Event("queue_stats", getStats(ts1))>>,
                 "task")

\* ret "QueueFull" stands for the thrown Error('Queue full - ...').
createTask(ts, cp, id) ==
    IF Len(ts) >= MAX_QUEUE_SIZE
    THEN Out(ts, cp, <<>>, "QueueFull")
    ELSE LET task == NewTask(ts, id)
             ts1 == Append(ts, task)
         IN  Out(ts1, cp,
                 <<Event("task_submitted", task), Event("queue_stats", getStats(ts1))>>,
                 "task")

\* A faulty variant: the slot is taken but the task is left pending.
startProcessing_Mutant(ts, cp, taskId) ==
    IF ~HasTask(ts, taskId)
    THEN Out(ts, cp, <<>>, "null")
    ELSE LET task == [GetTask(ts, taskId) EXCEPT
                         !.startedAt = DateNow, !.progress = 0]
             ts1 == SetTask(ts, task)
         IN  Out(ts1, cp + 1,
                 <<Event("task_started", task), Event("queue_stats", getStats(ts1))>>,
                 "task")

startProcessing(ts, cp, taskId) ==
    IF ~HasTask(ts, taskId)
    THEN Out(ts, cp, <<>>, "null")
    ELSE LET task == [GetTask(ts, taskId) EXCEPT
                         !.state = "processing", !.startedAt = DateNow, !.progress = 0]
             ts1 == SetTask(ts, task)
         IN  Out(ts1, cp + 1,
                 <<Event("task_started", task), Event("queue_stats", getStats(ts1))>>,
                 "task")

\* A faulty variant: the event is broadcast before the task is looked up.
updateProgress_Mutant(ts, cp, taskId, progress) ==
    LET clamped == Min(100, Max(0, progress))
        event == Event("task_progress", [id |-> taskId, progress |-> clamped])
    IN  IF ~HasTask(ts, taskId)
        THEN Out(ts, cp, <<event>>, "undefined")
        ELSE Out(SetTask(ts, [GetTask(ts, taskId) EXCEPT !.progress = clamped]), cp,
                 <<event>>, "undefined")

updateProgress(ts, cp, taskId, progress) ==
    IF ~HasTask(ts, taskId)
    THEN Out(ts, cp, <<>>, "undefined")
    ELSE LET task == [GetTask(ts, taskId) EXCEPT
                         !.progress = Min(100, Max(0, progress))]
         IN  Out(SetTask(ts, task), cp,
                 <<Event("task_progress", [id |-> taskId, progress |-> task.progress])>>,
                 "undefined")

\* A faulty variant: the slot is not released.
completeTask_Mutant(ts, cp, taskId, result) ==
    IF ~HasTask(ts, taskId)
    THEN Out(ts, cp, <<>>, "null")
    ELSE LET task == [GetTask(ts, taskId) EXCEPT
                         !.state = "completed", !.completedAt = DateNow,
                         !.result = result, !.progress = 100]
             ts1 == SetTask(ts, task)
         IN  Out(updateEstimatedWaitTimes(ts1), cp,
                 <<Event("task_completed", task), Event("queue_stats", getStats(ts1))>>,
                 "task")

completeTask(ts, cp, taskId, result) ==
    IF ~HasTask(ts, taskId)
    THEN Out(ts, cp, <<>>, "null")
    ELSE LET task == [GetTask(ts, taskId) EXCEPT
                         !.state = "completed", !.completedAt = DateNow,
                         !.result = result, !.progress = 100]
             ts1 == SetTask(ts, task)
         IN  Out(updateEstimatedWaitTimes(ts1), cp - 1,
                 <<Event("task_completed", task), Event("queue_stats", getStats(ts1))>>,
                 "task")

\* A faulty variant: one retry more than maxRetries.
shouldRetry_Mutant(task, isRetryable) == isRetryable /\ task.retryCount <= task.maxRetries

\* const shouldRetry = isRetryable && task.retryCount < task.maxRetries
shouldRetry(task, isRetryable) == isRetryable /\ task.retryCount < task.maxRetries

\* A faulty variant: the slot is released before the task is looked up.
failTask_MutantUnknown(ts, cp, taskId, error, isRetryable, r) ==
    IF ~HasTask(ts, taskId)
    THEN Out(ts, cp - 1, <<>>, "null")
    ELSE LET t0 == [GetTask(ts, taskId) EXCEPT
                       !.error = IF error.code = "undefined" THEN "UNKNOWN" ELSE error.code]
             retry == shouldRetry(t0, isRetryable)
             retried == [t0 EXCEPT
                            !.retryCount = t0.retryCount + 1,
                            !.nextRetryAt = DateNow + calculateBackoff(t0.retryCount + 1, r),
                            !.state = "retrying"]
             failed == [t0 EXCEPT !.state = "failed", !.completedAt = DateNow]
             task == IF retry THEN retried ELSE failed
             ts1 == SetTask(ts, task)
             event == IF retry
                      THEN Event("task_retry_scheduled",
                                 [id |-> taskId, retryCount |-> task.retryCount,
                                  maxRetries |-> task.maxRetries,
                                  nextRetryAt |-> task.nextRetryAt, error |-> task.error])
                      ELSE Event("task_failed", task)
         IN  Out(ts1, cp - 1, <<event, Event("queue_stats", getStats(ts1))>>, "task")

\* A faulty variant: the error is recorded only when a retry is scheduled.
failTask_Mutant(ts, cp, taskId, error, isRetryable, r) ==
    IF ~HasTask(ts, taskId)
    THEN Out(ts, cp, <<>>, "null")
    ELSE LET t0 == GetTask(ts, taskId)
             retry == shouldRetry(t0, isRetryable)
             retried == [t0 EXCEPT
                            !.error = IF error.code = "undefined" THEN "UNKNOWN"
                                      ELSE error.code,
                            !.retryCount = t0.retryCount + 1,
                            !.nextRetryAt = DateNow + calculateBackoff(t0.retryCount + 1, r),
                            !.state = "retrying"]
             failed == [t0 EXCEPT !.state = "failed", !.completedAt = DateNow]
             task == IF retry THEN retried ELSE failed
             ts1 == SetTask(ts, task)
             event == IF retry
                      THEN Event("task_retry_scheduled",
                                 [id |-> taskId, retryCount |-> task.retryCount,
                                  maxRetries |-> task.maxRetries,
                                  nextRetryAt |-> task.nextRetryAt, error |-> task.error])
                      ELSE Event("task_failed", task)
         IN  Out(ts1, cp - 1, <<event, Event("queue_stats", getStats(ts1))>>, "task")

\* error is the thrown object [code, isRetryable]; r is the Math.random() draw
\* calculateBackoff makes when a retry is scheduled.
failTask(ts, cp, taskId, error, isRetryable, r) ==
    IF ~HasTask(ts, taskId)
    THEN Out(ts, cp, <<>>, "null")
    ELSE LET t0 == [GetTask(ts, taskId) EXCEPT
                       !.error = IF error.code = "undefined" THEN "UNKNOWN" ELSE error.code]
             retry == shouldRetry(t0, isRetryable)
             retried == [t0 EXCEPT
                            !.retryCount = t0.retryCount + 1,
                            !.nextRetryAt = DateNow + calculateBackoff(t0.retryCount + 1, r),
                            !.state = "retrying"]
             failed == [t0 EXCEPT !.state = "failed", !.completedAt = DateNow]
             task == IF retry THEN retried ELSE failed
             ts1 == SetTask(ts, task)
             event == IF retry
                      THEN Event("task_retry_scheduled",
                                 [id |-> taskId, retryCount |-> task.retryCount,
                                  maxRetries |-> task.maxRetries,
                                  nextRetryAt |-> task.nextRetryAt, error |-> task.error])
                      ELSE Event("task_failed", task)
         IN  Out(ts1, cp - 1, <<event, Event("queue_stats", getStats(ts1))>>, "task")

\* A faulty variant: the requeued task is stamped as if created now.
requeueForRetry_MutantCreatedAt(ts, cp, taskId) ==
    IF ~HasTask(ts, taskId)
    THEN Out(ts, cp, <<>>, "null")
    ELSE LET task == [GetTask(ts, taskId) EXCEPT
                         !.state = "pending", !.nextRetryAt = Null, !.error = "null",
                         !.createdAt = DateNow]
         IN  Out(SetTask(ts, task), cp, <<Event("task_requeued", task)>>, "task")

\* A faulty variant: the error of the failed attempt is kept.
requeueForRetry_MutantError(ts, cp, taskId) ==
    IF ~HasTask(ts, taskId)
    THEN Out(ts, cp, <<>>, "null")
    ELSE LET task == [GetTask(ts, taskId) EXCEPT
                         !.state = "pending", !.nextRetryAt = Null]
         IN  Out(SetTask(ts, task), cp, <<Event("task_requeued", task)>>, "task")

\* A faulty variant: the task is put straight back to processing.
requeueForRetry_Mutant(ts, cp, taskId) ==
    IF ~HasTask(ts, taskId)
    THEN Out(ts, cp, <<>>, "null")
    ELSE LET task == [GetTask(ts, taskId) EXCEPT
                         !.state = "processing", !.nextRetryAt = Null, !.error = "null"]
         IN  Out(SetTask(ts, task), cp, <<Event("task_requeued", task)>>, "task")

requeueForRetry(ts, cp, taskId) ==
    IF ~HasTask(ts, taskId)
    THEN Out(ts, cp, <<>>, "null")
    ELSE LET task == [GetTask(ts, taskId) EXCEPT
                         !.state = "pending", !.nextRetryAt = Null, !.error = "null"]
         IN  Out(SetTask(ts, task), cp, <<Event("task_requeued", task)>>, "task")

\* A faulty variant: a Processing task is removed like any other.
cancelTask_Mutant(ts, cp, taskId) ==
    IF ~HasTask(ts, taskId)
    THEN Out(ts, cp, <<>>, "false")
    ELSE LET ts1 == DeleteTask(ts, taskId)
         IN  Out(ts1, cp,
                 <<Event("task_cancelled", [id |-> taskId]),
                   Event("queue_stats", getStats(ts1))>>,
                 "true")

cancelTask(ts, cp, taskId) ==
    IF ~HasTask(ts, taskId) \/ GetTask(ts, taskId).state = "processing"
    THEN Out(ts, cp, <<>>, "false")
    ELSE LET ts1 == DeleteTask(ts, taskId)
         IN  Out(ts1, cp,
                 <<Event("task_cancelled", [id |-> taskId]),
                   Event("queue_stats", getStats(ts1))>>,
                 "true")

\* A faulty variant: a client that is not registered (any more) is written too.
broadcast_Mutant(clients, events) ==
    [o \in Observers |-> events]

\* broadcast: sendToClient to every registered client.
broadcast(clients, events) ==
    [o \in Observers |-> IF o \in Range(clients) THEN events ELSE <<>>]

----------------------------------------------------------------------------
(* PollinationsClient *)

isRetryableStatusCode(statusCode) == statusCode \in {429, 500, 502, 503, 504}

\* How a fetch() can settle: with an image, with a non-ok status, with an ok
\* response that is no image, aborted by the timeout, or rejected by the
\* network layer with an error whose .code is given ("undefined": none).
Image == [kind |-> "image", status |-> 200, code |-> "undefined"]

Http(status) == [kind |-> "http", status |-> status, code |-> "undefined"]

NotImage == [kind |-> "notImage", status |-> 200, code |-> "undefined"]

Abort == [kind |-> "abort", status |-> 0, code |-> "AbortError"]

Reject(code) == [kind |-> "reject", status |-> 0, code |-> code]

\* The error generateImage throws for a settlement that is no image, as
\* [code, isRetryable]; isRetryable is "undefined" when nothing set it.
thrownError(outcome) ==
    CASE outcome.kind = "http" ->
            \* parseError
            [code |-> "HTTP_" \o ToString(outcome.status),
             isRetryable |-> IF isRetryableStatusCode(outcome.status)
                             THEN "true" ELSE "false"]
      [] outcome.kind = "notImage" ->
            [code |-> "INVALID_RESPONSE", isRetryable |-> "true"]
      [] outcome.kind = "abort" ->
            [code |-> "TIMEOUT", isRetryable |-> "true"]
      [] OTHER ->
            [code |-> outcome.code,
             isRetryable |-> IF outcome.code \in {"ECONNREFUSED", "ENOTFOUND",
                                                  "UND_ERR_CONNECT_TIMEOUT"}
                             THEN "true" ELSE "undefined"]

\* clearInterval(progressInterval) runs only after fetch() has resolved.
clearsInterval(outcome) == outcome.kind \in {"image", "http", "notImage"}

\* The value the progressInterval callback reports.
estimatedProgress(startTime) ==
    LET elapsed == DateNow - startTime
    IN  Min(90, 10 + (elapsed * 80) \div 20000)

----------------------------------------------------------------------------
(* The state after the modules are loaded: new QueueManager(), new Worker() *)

NoneSent == [o \in Observers |-> <<>>]

\* The record kept of the handler that ran last: the call it made on the
\* queue, the task id it was about (0: none), an argument and the result.
Called(op, id, arg, ret) == [op |-> op, id |-> id, arg |-> arg, ret |-> ret]

InitWith(called) ==
    /\ tasks = <<>>
    /\ currentlyProcessing = 0
    /\ sseClients = <<>>
    /\ isRunning = FALSE
    /\ now = 0
    /\ inflight = {}
    /\ intervals = {}
    /\ usedIds = {}
    /\ last = called
    /\ published = <<>>
    /\ sent = NoneSent

Init == InitWith(Called("init", 0, "none", "undefined"))

\* The handler that runs broadcasts these events, in this order.
Publish(events) ==
    /\ published' = events
    /\ sent' = broadcast(sseClients, events)

----------------------------------------------------------------------------
(* Handlers *)

\* POST /tasks -> queueManager.createTask(prompt).  id is the fresh id uuidv4
\* yields; a rejected call throws before it asks for one.
CreateTask(id) ==
    LET out == createTask(tasks, currentlyProcessing, id)
    IN  /\ id \notin usedIds
        /\ id \in Ids \/ out.ret = "QueueFull"
        /\ tasks' = out.tasks
        /\ currentlyProcessing' = out.cp
        /\ Publish(out.events)
        /\ usedIds' = IF out.ret = "task" THEN usedIds \cup {id} ELSE usedIds
        /\ last' = Called("createTask", IF out.ret = "task" THEN id ELSE 0, "none",
                           out.ret)
        /\ UNCHANGED <<sseClients, isRunning, now, inflight, intervals>>

\* DELETE /tasks/:id -> queueManager.cancelTask(id)
CancelTask(id) ==
    LET out == cancelTask(tasks, currentlyProcessing, id)
    IN  /\ tasks' = out.tasks
        /\ currentlyProcessing' = out.cp
        /\ Publish(out.events)
        /\ last' = Called("cancelTask", id, "none", out.ret)
        /\ UNCHANGED <<sseClients, isRunning, now, inflight, intervals, usedIds>>

\* A faulty variant: the stats are written before the snapshot.
AddSSEClient_Mutant(o) ==
    /\ o \notin Range(sseClients)
    /\ sseClients' = Append(sseClients, o)
    /\ published' = <<>>
    /\ sent' = [NoneSent EXCEPT ![o] =
                   <<Event("queue_stats", getStats(tasks)),
                     Event("queue_snapshot", getAllTasks(tasks))>>]
    /\ last' = Called("addSSEClient", 0, "none", "undefined")
    /\ UNCHANGED <<tasks, currentlyProcessing, isRunning, now, inflight, intervals,
                   usedIds>>

\* GET /queue/stream -> queueManager.addSSEClient(res)
AddSSEClient(o) ==
    /\ o \notin Range(sseClients)
    /\ sseClients' = Append(sseClients, o)
    /\ published' = <<>>
    /\ sent' = [NoneSent EXCEPT ![o] =
                   <<Event("queue_snapshot", getAllTasks(tasks)),
                     Event("queue_stats", getStats(tasks))>>]
    /\ last' = Called("addSSEClient", 0, "none", "undefined")
    /\ UNCHANGED <<tasks, currentlyProcessing, isRunning, now, inflight, intervals,
                   usedIds>>

\* res 'close' -> sseClients.delete(res)
CloseSSEClient(o) ==
    /\ o \in Range(sseClients)
    /\ sseClients' = SelectSeq(sseClients, LAMBDA c : c # o)
    /\ Publish(<<>>)
    /\ last' = Called("close", 0, "none", "undefined")
    /\ UNCHANGED <<tasks, currentlyProcessing, isRunning, now, inflight, intervals,
                   usedIds>>

\* Worker.start / Worker.stop
WorkerStart ==
    /\ ~isRunning
    /\ isRunning' = TRUE
    /\ Publish(<<>>)
    /\ last' = Called("start", 0, "none", "undefined")
    /\ UNCHANGED <<tasks, currentlyProcessing, sseClients, now, inflight, intervals,
                   usedIds>>

WorkerStop ==
    /\ isRunning
    /\ isRunning' = FALSE
    /\ Publish(<<>>)
    /\ last' = Called("stop", 0, "none", "undefined")
    /\ UNCHANGED <<tasks, currentlyProcessing, sseClients, now, inflight, intervals,
                   usedIds>>

\* processingLoop fires: Worker.processNextTask up to its await.  When a task
\* is claimed, generateImage runs on to fetch(): onProgress(10), the timers.
ProcessNextTask ==
    /\ isRunning
    /\ LET i == getNextPendingTask(tasks)
       IN  IF ~hasCapacity(currentlyProcessing) \/ i = 0
           THEN /\ Publish(<<>>)
                /\ last' = Called("processNextTask", 0, "none", "undefined")
                /\ UNCHANGED <<tasks, currentlyProcessing, inflight, intervals>>
           ELSE LET id == tasks[i].id
                    started == startProcessing(tasks, currentlyProcessing, id)
                    reported == updateProgress(started.tasks, started.cp, id, 10)
                    execution == [id |-> id, startTime |-> DateNow]
                IN  /\ tasks' = reported.tasks
                    /\ currentlyProcessing' = reported.cp
                    /\ Publish(started.events \o reported.events)
                    /\ inflight' = inflight \cup {execution}
                    /\ intervals' = intervals \cup {execution}
                    /\ last' = Called("processNextTask", id, "none", "started")
    /\ UNCHANGED <<sseClients, isRunning, now, usedIds>>

\* A progressInterval timer fires (every 1000 ms while it is not cleared).
ProgressInterval(iv) ==
    LET out == updateProgress(tasks, currentlyProcessing, iv.id,
                              estimatedProgress(iv.startTime))
    IN  /\ iv \in intervals
        /\ DateNow - iv.startTime >= 1000
        /\ tasks' = out.tasks
        /\ currentlyProcessing' = out.cp
        /\ Publish(out.events)
        /\ last' = Called("updateProgress", iv.id, "none", out.ret)
        /\ UNCHANGED <<sseClients, isRunning, now, inflight, intervals, usedIds>>

\* fetch() of an execution settles: the rest of generateImage and of
\* processNextTask.  r is the Math.random() draw of calculateBackoff.
Settle(ex, outcome, r) ==
    /\ ex \in inflight
    /\ outcome.kind = "abort" => DateNow - ex.startTime >= Timeout
    /\ inflight' = inflight \ {ex}
    /\ intervals' = IF clearsInterval(outcome) THEN intervals \ {ex} ELSE intervals
    /\ IF outcome.kind = "image"
       THEN LET reported == updateProgress(tasks, currentlyProcessing, ex.id, 100)
                \* result.generatedAt
                result == DateNow
                out == completeTask(reported.tasks, reported.cp, ex.id, result)
            IN  /\ tasks' = out.tasks
                /\ currentlyProcessing' = out.cp
                /\ Publish(reported.events \o out.events)
                /\ last' = Called("completeTask", ex.id, "none", out.ret)
       ELSE LET error == thrownError(outcome)
                isRetryable == IF error.isRetryable # "undefined"
                               THEN error.isRetryable = "true" ELSE TRUE
                out == failTask(tasks, currentlyProcessing, ex.id, error, isRetryable, r)
            IN  /\ tasks' = out.tasks
                /\ currentlyProcessing' = out.cp
                /\ Publish(out.events)
                /\ last' = Called("failTask", ex.id,
                                   IF isRetryable THEN "true" ELSE "false", out.ret)
    /\ UNCHANGED <<sseClients, isRunning, now, usedIds>>

\* The loop of checkRetries over the ready tasks, from the k-th on.
RECURSIVE requeueAll(_, _, _, _)
requeueAll(ready, k, ts, events) ==
    IF k > Len(ready) THEN Out(ts, 0, events, "undefined")
    ELSE LET out == requeueForRetry(ts, 0, ts[ready[k]].id)
         IN  requeueAll(ready, k + 1, out.tasks, events \o out.events)

\* retryLoop fires: Worker.checkRetries
CheckRetries ==
    LET out == requeueAll(getTasksReadyForRetry(tasks), 1, tasks, <<>>)
    IN  /\ isRunning
        /\ tasks' = out.tasks
        /\ Publish(out.events)
        /\ last' = Called("checkRetries", 0, "none", "undefined")
        /\ UNCHANGED <<currentlyProcessing, sseClients, isRunning, now, inflight,
                       intervals, usedIds>>

\* Time passes: the clock is next read `step` ms later (at most `limit` steps).
Tick(step, limit) ==
    /\ now < limit * step
    /\ now' = now + step
    /\ Publish(<<>>)
    /\ last' = Called("tick", 0, "none", "undefined")
    /\ UNCHANGED <<tasks, currentlyProcessing, sseClients, isRunning, inflight,
                   intervals, usedIds>>

----------------------------------------------------------------------------
(* Specifications.  Spec is the queue and the worker under HTTP submissions *)
(* and cancellations, with executions that settle after fetch() resolved.  *)

\* The jitter draws explored: the two ends of Math.random()'s range.
Draws == {0, RandDenom - 1}

\* Settlements after fetch() resolved: an image, a permanent and a retryable status.
Resolved == {Image, Http(400), Http(503)}

\* uuidv4's ids are opaque: Spec hands them out in ascending order.
NextId == Cardinality(usedIds) + 1

Next ==
    \/ CreateTask(NextId)
    \/ \E id \in Ids : CancelTask(id)
    \/ WorkerStart
    \/ ProcessNextTask
    \/ \E ex \in inflight, outcome \in Resolved, r \in Draws : Settle(ex, outcome, r)
    \/ CheckRetries
    \/ Tick(TickMs, MaxTime)

Spec == Init /\ [][Next]_vars

----------------------------------------------------------------------------
(* SpecLife: the whole life of one task, over a time long enough for every *)
(* backoff delay and for the execution timeout, with every kind of         *)
(* settlement and with the progress timers.                                *)

MaxTimeLife == 8

\* SpecLife reads the clock every 16 s: 8 steps pass the 120 s timeout.
LifeTickMs == 8 * BASE_RETRY_DELAY

Settlements == Resolved \cup {NotImage, Abort, Reject("ECONNREFUSED"), Reject("undefined")}

NextLife ==
    \/ (usedIds = {} /\ CreateTask(1))
    \/ CancelTask(1)
    \/ WorkerStart
    \/ ProcessNextTask
    \/ \E ex \in inflight, outcome \in Settlements, r \in Draws : Settle(ex, outcome, r)
    \/ CheckRetries
    \/ Tick(LifeTickMs, MaxTimeLife)

SpecLife == Init /\ [][NextLife]_vars

----------------------------------------------------------------------------
(* SpecProgress: two tasks with the progress timers of generateImage, and  *)
(* with fetch() rejections, after which the timer is never cleared.        *)

MaxTimeProgress == 2

Rejected == {Reject("undefined")}

NextProgress ==
    \/ (NextId <= 2 /\ CreateTask(NextId))
    \/ \E id \in 1 .. 2 : CancelTask(id)
    \/ WorkerStart
    \/ ProcessNextTask
    \/ \E iv \in intervals : ProgressInterval(iv)
    \/ \E ex \in inflight, outcome \in Resolved \cup Rejected, r \in Draws :
          Settle(ex, outcome, r)
    \/ CheckRetries
    \/ Tick(TickMs, MaxTimeProgress)

SpecProgress == Init /\ [][NextProgress]_vars

----------------------------------------------------------------------------
(* SpecObs: two tasks and the observers of GET /queue/stream, which        *)
(* subscribe and disconnect at any time.                                   *)

MaxTimeObs == 1

NextObs ==
    \/ (NextId <= 2 /\ CreateTask(NextId))
    \/ \E id \in 1 .. 2 : CancelTask(id)
    \/ \E o \in Observers : AddSSEClient(o)
    \/ \E o \in Observers : CloseSSEClient(o)
    \/ WorkerStart
    \/ ProcessNextTask
    \/ \E ex \in inflight, outcome \in Resolved, r \in Draws : Settle(ex, outcome, r)
    \/ CheckRetries
    \/ Tick(TickMs, MaxTimeObs)

SpecObs == Init /\ [][NextObs]_vars

----------------------------------------------------------------------------
(* SpecFifo: the ids uuidv4 yields come in any order, so that the order of *)
(* the ids and the order of insertion differ; every execution fails with a *)
(* retryable status, so that tasks come back to Pending.                   *)

MaxTimeFifo == 1

NextFifo ==
    \/ \E id \in Ids : CreateTask(id)
    \/ \E id \in Ids : CancelTask(id)
    \/ WorkerStart
    \/ ProcessNextTask
    \/ \E ex \in inflight, r \in Draws : Settle(ex, Http(503), r)
    \/ CheckRetries
    \/ Tick(TickMs, MaxTimeFifo)

SpecFifo == Init /\ [][NextFifo]_vars

----------------------------------------------------------------------------
(* SpecBackoff: calculateBackoff applied to every attempt number up to     *)
(* MaxAttempt and every draw of Math.random().                             *)

MaxAttempt == 8

InitBackoff ==
    \E retryCount \in 1 .. MaxAttempt, r \in 0 .. RandDenom - 1 :
        InitWith(Called("Math.random", 0, <<retryCount, r>>, Null))

CallBackoff ==
    /\ last.op = "Math.random"
    /\ last' = Called("calculateBackoff", 0, last.arg,
                      calculateBackoff(last.arg[1], last.arg[2]))
    /\ Publish(<<>>)
    /\ UNCHANGED <<tasks, currentlyProcessing, sseClients, isRunning, now, inflight,
                   intervals, usedIds>>

SpecBackoff == InitBackoff /\ [][CallBackoff]_vars

----------------------------------------------------------------------------
(* SpecFaulty: one task and observers whose res.write may raise.           *)
(* sendToClient and broadcast have no try/catch, so the exception leaves   *)
(* the method at that broadcast.  The handlers below are those whose       *)
(* caller catches it: the POST and DELETE routes, and processNextTask      *)
(* inside its try block; one write raises per handler.                     *)

MaxTimeFaulty == 1

\* The position of a client in the iteration order of sseClients.
ClientPos(clients, o) == CHOOSE i \in 1 .. Len(clients) : clients[i] = o

\* What broadcast writes when the write to client b raises at the k-th of
\* `events`: the clients iterated before b have got that event, b and the
\* clients after it have not; no later event is broadcast.
broadcastRaising(clients, events, k, b) ==
    [o \in Observers |->
        IF o \notin Range(clients) THEN <<>>
        ELSE IF ClientPos(clients, o) < ClientPos(clients, b)
             THEN SubSeq(events, 1, k)
             ELSE SubSeq(events, 1, k - 1)]

\* completeTask left by an exception of one of its broadcasts: the task is
\* completed and the slot released, updateEstimatedWaitTimes is not reached.
completeTaskRaising(ts, cp, taskId, result) ==
    LET task == [GetTask(ts, taskId) EXCEPT
                    !.state = "completed", !.completedAt = DateNow,
                    !.result = result, !.progress = 100]
        ts1 == SetTask(ts, task)
    IN  Out(ts1, cp - 1,
            <<Event("task_completed", task), Event("queue_stats", getStats(ts1))>>,
            "throws")

\* The exception of res.write as the worker's catch block sees it.
WriteError == [code |-> "undefined", isRetryable |-> "undefined"]

\* POST /tasks when the k-th broadcast of createTask raises at b: the task is
\* stored already, the route answers 500.
CreateTaskRaising(id, k, b) ==
    LET out == createTask(tasks, currentlyProcessing, id)
    IN  /\ id \notin usedIds /\ id \in Ids
        /\ b \in Range(sseClients)
        /\ out.ret = "task" /\ k \in 1 .. Len(out.events)
        /\ tasks' = out.tasks
        /\ currentlyProcessing' = out.cp
        /\ published' = SubSeq(out.events, 1, k)
        /\ sent' = broadcastRaising(sseClients, out.events, k, b)
        /\ usedIds' = usedIds \cup {id}
        /\ last' = Called("createTask", id, b, "throws")
        /\ UNCHANGED <<sseClients, isRunning, now, inflight, intervals>>

\* DELETE /tasks/:id when the k-th broadcast of cancelTask raises at b.
CancelTaskRaising(id, k, b) ==
    LET out == cancelTask(tasks, currentlyProcessing, id)
    IN  /\ b \in Range(sseClients)
        /\ out.ret = "true" /\ k \in 1 .. Len(out.events)
        /\ tasks' = out.tasks
        /\ currentlyProcessing' = out.cp
        /\ published' = SubSeq(out.events, 1, k)
        /\ sent' = broadcastRaising(sseClients, out.events, k, b)
        /\ last' = Called("cancelTask", id, b, "throws")
        /\ UNCHANGED <<sseClients, isRunning, now, inflight, intervals, usedIds>>

\* processNextTask when onProgress(10), the first statement of generateImage
\* that broadcasts, raises at b: fetch() is never called, the promise is
\* rejected and the catch block calls failTask.
ProcessNextTaskRaising(r, b) ==
    LET i == getNextPendingTask(tasks)
        id == tasks[i].id
        started == startProcessing(tasks, currentlyProcessing, id)
        reported == updateProgress(started.tasks, started.cp, id, 10)
        events == started.events \o reported.events
        failed == failTask(reported.tasks, reported.cp, id, WriteError, TRUE, r)
    IN  /\ isRunning
        /\ b \in Range(sseClients)
        /\ hasCapacity(currentlyProcessing) /\ i # 0
        /\ tasks' = failed.tasks
        /\ currentlyProcessing' = failed.cp
        /\ published' = events \o failed.events
        /\ sent' = [o \in Observers |->
                      broadcastRaising(sseClients, events, Len(events), b)[o]
                      \o broadcast(sseClients, failed.events)[o]]
        /\ last' = Called("processNextTask", id, b, "throws")
        /\ UNCHANGED <<sseClients, isRunning, now, inflight, intervals, usedIds>>

\* fetch() returns an image and the k-th broadcast that follows raises at b:
\* task_progress of onProgress(100) inside generateImage (k = 1), or
\* task_completed or queue_stats inside completeTask (k = 2, 3).  Either way
\* the exception reaches the catch block of processNextTask: failTask.
SettleRaising(ex, r, k, b) ==
    LET reported == updateProgress(tasks, currentlyProcessing, ex.id, 100)
        completed == completeTaskRaising(reported.tasks, reported.cp, ex.id, DateNow)
        reached == IF k = 1 THEN reported ELSE completed
        events == reported.events \o completed.events
        failed == failTask(reached.tasks, reached.cp, ex.id, WriteError, TRUE, r)
    IN  /\ ex \in inflight
        /\ b \in Range(sseClients)
        /\ k \in 1 .. Len(events)
        /\ inflight' = inflight \ {ex}
        /\ intervals' = intervals \ {ex}
        /\ tasks' = failed.tasks
        /\ currentlyProcessing' = failed.cp
        /\ published' = SubSeq(events, 1, k) \o failed.events
        /\ sent' = [o \in Observers |->
                      broadcastRaising(sseClients, events, k, b)[o]
                      \o broadcast(sseClients, failed.events)[o]]
        /\ last' = Called("settle", ex.id, b, "throws")
        /\ UNCHANGED <<sseClients, isRunning, now, usedIds>>

NextFaulty ==
    \/ (usedIds = {} /\ CreateTask(1))
    \/ (usedIds = {} /\ \E k \in 1 .. 2, b \in Observers : CreateTaskRaising(1, k, b))
    \/ CancelTask(1)
    \/ \E k \in 1 .. 2, b \in Observers : CancelTaskRaising(1, k, b)
    \/ \E o \in Observers : AddSSEClient(o)
    \/ WorkerStart
    \/ ProcessNextTask
    \/ \E r \in Draws, b \in Observers : ProcessNextTaskRaising(r, b)
    \/ \E ex \in inflight, outcome \in Resolved, r \in Draws : Settle(ex, outcome, r)
    \/ \E ex \in inflight, r \in Draws, k \in 1 .. 3, b \in Observers :
          SettleRaising(ex, r, k, b)
    \/ CheckRetries
    \/ Tick(TickMs, MaxTimeFaulty)

SpecFaulty == Init /\ [][NextFaulty]_vars

----------------------------------------------------------------------------
(* SpecStop: two tasks and a worker that is stopped and started again.     *)
(* Worker.stop() clears the two loop timers and nothing else: the promises *)
(* of the executions in flight stay pending.  (The SIGTERM and SIGINT      *)
(* handlers of server.js call stop() and then process.exit(0), after which *)
(* nothing runs at all; SpecStop is the worker stopped by any other caller.) *)

MaxTimeStop == 1

NextStop ==
    \/ (NextId <= 2 /\ CreateTask(NextId))
    \/ \E id \in 1 .. 2 : CancelTask(id)
    \/ WorkerStart
    \/ WorkerStop
    \/ ProcessNextTask
    \/ \E ex \in inflight, outcome \in Resolved, r \in Draws : Settle(ex, outcome, r)
    \/ CheckRetries
    \/ Tick(TickMs, MaxTimeStop)

SpecStop == Init /\ [][NextStop]_vars

----------------------------------------------------------------------------
(* SpecClassify: the error generateImage throws, for every way fetch() can *)
(* end without an image: the client and server error statuses, the timeout *)
(* abort, and rejections by the network layer.                             *)

\* HTTP statuses of a response that is not ok.
Statuses == {400, 401, 403, 404, 429} \cup (500 .. 599)

\* error.code of a fetch() rejected by the network layer; "undefined": the
\* error carries no code of its own.
NetworkCodes == {"ECONNREFUSED", "ENOTFOUND", "UND_ERR_CONNECT_TIMEOUT",
                 "ECONNRESET", "undefined"}

Failures ==
    {Http(status) : status \in Statuses}
    \cup {NotImage, Abort}
    \cup {Reject(code) : code \in NetworkCodes}

InitClassify ==
    \E outcome \in Failures :
        InitWith(Called("fetch", 0, outcome, [code |-> "none", isRetryable |-> "none"]))

CallClassify ==
    /\ last.op = "fetch"
    /\ last' = Called("generateImage", 0, last.arg, thrownError(last.arg))
    /\ Publish(<<>>)
    /\ UNCHANGED <<tasks, currentlyProcessing, sseClients, isRunning, now, inflight,
                   intervals, usedIds>>

SpecClassify == InitClassify /\ [][CallClassify]_vars

----------------------------------------------------------------------------
(* SpecDirect: the methods of QueueManager called with an id that is not   *)
(* stored, on the stores that two tasks and the observers bring about.     *)
(* The worker and the routes call startProcessing, completeTask, failTask  *)
(* and requeueForRetry only with the id of a stored task; here each method *)
(* is applied as a caller of the exported queueManager could apply it.     *)

\* The ids a caller can pass: those uuidv4 yields and one it never yields.
AnyIds == 0 .. NumIds

\* One method call on the queueManager with an id that is not stored.
CallDirect(op, id, out) ==
    /\ ~HasTask(tasks, id)
    /\ tasks' = out.tasks
    /\ currentlyProcessing' = out.cp
    /\ Publish(out.events)
    /\ last' = Called(op, id, "none", out.ret)
    /\ UNCHANGED <<sseClients, isRunning, now, inflight, intervals, usedIds>>

NextDirect ==
    \/ (NextId <= 2 /\ CreateTask(NextId))
    \/ \E id \in AnyIds : CancelTask(id)
    \/ \E o \in Observers : AddSSEClient(o)
    \/ WorkerStart
    \/ ProcessNextTask
    \/ \E ex \in inflight, outcome \in Resolved, r \in Draws : Settle(ex, outcome, r)
    \/ \E id \in AnyIds :
          CallDirect("startProcessing", id,
                     startProcessing(tasks, currentlyProcessing, id))
    \/ \E id \in AnyIds :
          CallDirect("updateProgress", id,
                     updateProgress(tasks, currentlyProcessing, id, 50))
    \/ \E id \in AnyIds :
          CallDirect("completeTask", id,
                     completeTask(tasks, currentlyProcessing, id, DateNow))
    \/ \E id \in AnyIds, r \in Draws :
          CallDirect("failTask", id,
                     failTask(tasks, currentlyProcessing, id, thrownError(Http(503)), TRUE, r))
    \/ \E id \in AnyIds :
          CallDirect("requeueForRetry", id,
                     requeueForRetry(tasks, currentlyProcessing, id))

SpecDirect == Init /\ [][NextDirect]_vars

----------------------------------------------------------------------------
(* SpecLive: the life of the tasks under fairness.  The worker is started  *)
(* (server.js starts it when it listens) and not stopped, its two loops    *)
(* keep firing, every fetch() settles, and time passes while a retry is    *)
(* awaited: the clock is read again, LifeTickMs later, only while some     *)
(* task is Retrying and not yet due, so that the bounded clock never runs  *)
(* out before a retry that is still owed.                                  *)

NumLive == 1

\* Clock readings that the retries of one task can take: its five backoff
\* delays span at most eight steps of LifeTickMs.
TicksPerTask == 9

MaxTimeLive == TicksPerTask * NumLive

Awaited == \E i \in 1 .. Len(tasks) :
              tasks[i].state = "retrying" /\ DateNow < tasks[i].nextRetryAt

TickLive == Awaited /\ Tick(LifeTickMs, MaxTimeLive)

SettleLive ==
    \E ex \in inflight, outcome \in Resolved \cup Rejected, r \in Draws :
        Settle(ex, outcome, r)

NextLive ==
    \/ (NextId <= NumLive /\ CreateTask(NextId))
    \/ \E id \in 1 .. NumLive : CancelTask(id)
    \/ WorkerStart
    \/ ProcessNextTask
    \/ SettleLive
    \/ CheckRetries
    \/ TickLive

SpecLive ==
    /\ Init /\ [][NextLive]_vars
    /\ WF_vars(WorkerStart)
    /\ WF_vars(ProcessNextTask)
    /\ WF_vars(SettleLive)
    /\ WF_vars(CheckRetries)
    /\ WF_vars(TickLive)

----------------------------------------------------------------------------
(* Claims *)

StoredIds == {tasks[i].id : i \in 1 .. Len(tasks)}

Stored == 1 .. Len(tasks)

\* C1: the number of tasks in Processing never exceeds MAX_CONCURRENT, under
\* any interleaving of submissions, dispatch, settlements, retry promotion
\* and cancellation.
C1_ProcessingWithinCap == CountState(tasks, "processing") <= MAX_CONCURRENT

\* A dispatch cycle has just found every slot busy and left a Pending task alone.
C1_Witness ==
    /\ CountState(tasks, "processing") = MAX_CONCURRENT
    /\ CountState(tasks, "pending") >= 1
    /\ last.op = "processNextTask" /\ last.id = 0

\* C2: with MAX_QUEUE_SIZE tasks stored (in any state), createTask fails with
\* the queue-full error, stores nothing and emits nothing; so the number of
\* stored tasks never exceeds MAX_QUEUE_SIZE.
C2_QueueFullRejects ==
    /\ [](Len(tasks) <= MAX_QUEUE_SIZE)
    /\ [][(last'.op = "createTask" /\ Len(tasks) = MAX_QUEUE_SIZE)
            => /\ last'.ret = "QueueFull"
               /\ tasks' = tasks
               /\ usedIds' = usedIds
               /\ published' = <<>>
               /\ sent' = NoneSent]_vars

\* A submission has just been rejected while Completed and Failed tasks fill the store.
C2_Witness ==
    /\ last.op = "createTask" /\ last.ret = "QueueFull"
    /\ Len(tasks) = MAX_QUEUE_SIZE
    /\ CountState(tasks, "completed") >= 1
    /\ CountState(tasks, "failed") >= 1

\* C3: retryCount never exceeds maxRetries; a retryable failure moves the task
\* to Retrying while retryCount < maxRetries (so exactly maxRetries times),
\* and the (maxRetries+1)th retryable failure moves it to Failed.
C3_RetriesBounded ==
    /\ [](\A i \in Stored : tasks[i].retryCount <= tasks[i].maxRetries)
    /\ [][\A i \in Stored :
            (last'.op = "failTask" /\ last'.arg = "true" /\ last'.id = tasks[i].id)
            => /\ Len(tasks') = Len(tasks)
               /\ IF tasks[i].retryCount < tasks[i].maxRetries
                  THEN /\ tasks'[i].state = "retrying"
                       /\ tasks'[i].retryCount = tasks[i].retryCount + 1
                  ELSE /\ tasks[i].retryCount = tasks[i].maxRetries
                       /\ tasks'[i].state = "failed"
                       /\ tasks'[i].retryCount = tasks[i].retryCount]_vars

\* The (maxRetries+1)th retryable failure has just moved a task to Failed.
C3_Witness ==
    /\ last.op = "failTask" /\ last.arg = "true"
    /\ \E i \in Stored :
          /\ tasks[i].id = last.id
          /\ tasks[i].state = "failed"
          /\ tasks[i].retryCount = MAX_RETRIES

PendingTasks == {i \in Stored : tasks[i].state = "pending"}

\* C4 as stated: getNextPendingTask returns nothing exactly when no task is
\* Pending, else the Pending task with the least createdAt, and among several
\* with that createdAt the one with the least id.
C4_TieBrokenById ==
    LET i == getNextPendingTask(tasks)
    IN  /\ i = 0 <=> PendingTasks = {}
        /\ i # 0 =>
              /\ i \in PendingTasks
              /\ \A j \in PendingTasks :
                    /\ tasks[j].createdAt >= tasks[i].createdAt
                    /\ tasks[j].createdAt = tasks[i].createdAt
                          => tasks[j].id >= tasks[i].id

\* C4 (amended): getNextPendingTask returns nothing exactly when no task is
\* Pending, else the Pending task with the least createdAt, and among several
\* with that createdAt the one stored first; dispatch claims that task.
C4_TieBrokenByInsertion ==
    /\ [](LET i == getNextPendingTask(tasks)
          IN  /\ i = 0 <=> PendingTasks = {}
              /\ i # 0 =>
                    /\ i \in PendingTasks
                    /\ \A j \in PendingTasks :
                          /\ tasks[j].createdAt >= tasks[i].createdAt
                          /\ tasks[j].createdAt = tasks[i].createdAt => j >= i)
    /\ [][(last'.op = "processNextTask" /\ last'.id # 0)
            => \E i \in PendingTasks :
                  /\ tasks[i].id = last'.id
                  /\ \A j \in PendingTasks :
                        /\ tasks[j].createdAt >= tasks[i].createdAt
                        /\ tasks[j].createdAt = tasks[i].createdAt => j >= i]_vars

\* Dispatch has just claimed the first stored of two Pending tasks with the
\* same createdAt, and the other one has the smaller id.
C4_Witness ==
    /\ last.op = "processNextTask" /\ last.id # 0
    /\ \E i, j \in Stored :
          /\ tasks[i].id = last.id /\ tasks[i].state = "processing"
          /\ tasks[j].state = "pending"
          /\ tasks[j].createdAt = tasks[i].createdAt
          /\ tasks[i].startedAt = tasks[i].createdAt
          /\ i < j /\ tasks[j].id < tasks[i].id

\* C5: cancelTask on a task in Processing returns false and changes nothing:
\* the store, the slot counter and the executions in flight stay as they
\* are (the task's execution still awaits its settlement), and nothing is
\* emitted.
C5_CancelProcessingRejected ==
    [][\A i \in Stored :
          (/\ last'.op = "cancelTask" /\ last'.id = tasks[i].id
           /\ tasks[i].state = "processing")
          => /\ last'.ret = "false"
             /\ tasks' = tasks
             /\ currentlyProcessing' = currentlyProcessing
             /\ published' = <<>> /\ sent' = NoneSent
             /\ inflight' = inflight /\ intervals' = intervals
             /\ \E ex \in inflight' : ex.id = tasks[i].id]_vars

\* cancelTask has just been refused for a task in Processing.
C5_Witness ==
    /\ last.op = "cancelTask" /\ last.ret = "false"
    /\ \E i \in Stored : tasks[i].id = last.id /\ tasks[i].state = "processing"

\* The unjittered delay of the k-th retry, as the claims state it.
Unjittered(k) == Min(2000 * Pow2(k - 1), 60000)

\* C8: for every retry attempt k, calculateBackoff(k) is an integer within
\* plus or minus 25% of the unjittered min(2000 * 2^(k-1), 60000), whatever
\* Math.random() draws.
C8_BackoffWithinJitter ==
    last.op = "calculateBackoff" =>
        LET k == last.arg[1]
            delay == last.ret
        IN  /\ delay \in Int
            /\ 4 * delay >= 3 * Unjittered(k)
            /\ 4 * delay <= 5 * Unjittered(k)

\* calculateBackoff has returned a jittered delay for the last retry.
C8_Witness ==
    /\ last.op = "calculateBackoff"
    /\ last.arg[1] = MAX_RETRIES
    /\ last.ret # Unjittered(MAX_RETRIES)

\* C9 as stated: a task whose attempts all fail with retryable errors waits
\* nominally (within a quarter) 2 s, 4 s, 8 s and 16 s after its 1st to 4th
\* failed attempt, and its 5th failed attempt moves it to Failed with no
\* retry scheduled.
C9_GivenUpAtFifthFailure ==
    [][\A i \in Stored :
          (last'.op = "failTask" /\ last'.arg = "true" /\ last'.id = tasks[i].id)
          => LET attempt == tasks[i].retryCount + 1
                 wait == tasks'[i].nextRetryAt - now'
             IN  IF attempt <= 4
                 THEN /\ tasks'[i].state = "retrying"
                      /\ 4 * wait >= 3 * 2000 * Pow2(attempt - 1)
                      /\ 4 * wait <= 5 * 2000 * Pow2(attempt - 1)
                 ELSE /\ tasks'[i].state = "failed"
                      /\ tasks'[i].nextRetryAt = Null]_vars

\* C10 as stated: once stored tasks have completed, a submission is accepted
\* again: Completed tasks do not count against the capacity of the queue.
C10_CompletionFreesCapacity ==
    [][(/\ last'.op = "createTask"
        /\ Len(tasks) - CountState(tasks, "completed") < MAX_QUEUE_SIZE)
          => last'.ret = "task"]_vars

\* The task ids an event carries.
EventIds(e) ==
    IF e.type = "queue_stats" THEN {}
    ELSE IF e.type = "queue_snapshot" THEN {e.data[k].id : k \in 1 .. Len(e.data)}
    ELSE {e.data.id}

\* The ids of the events in a sequence.
IdsIn(events) == UNION {EventIds(events[k]) : k \in 1 .. Len(events)}

\* The ids whose record was removed: only cancelTask removes one.
Cancelled == usedIds \ StoredIds

\* C6: cancelTask on a Pending or Retrying task succeeds, removes the record
\* and emits task_cancelled for it once; from then on the id stays removed
\* and no event of any kind carries it, whether broadcast or written to one
\* observer (not a task_progress of an earlier attempt's timer either).
C6_NoEventAfterCancel ==
    /\ [][\A i \in Stored :
            (/\ last'.op = "cancelTask" /\ last'.id = tasks[i].id
             /\ tasks[i].state \in {"pending", "retrying"})
            => /\ last'.ret = "true"
               /\ tasks[i].id \notin {tasks'[j].id : j \in 1 .. Len(tasks')}
               /\ Len(published') = 2
               /\ published'[1] = Event("task_cancelled", [id |-> tasks[i].id])
               /\ published'[2].type = "queue_stats"]_vars
    /\ [][\A id \in Cancelled :
            /\ id \in usedIds' /\ id \notin {tasks'[j].id : j \in 1 .. Len(tasks')}
            /\ id \notin IdsIn(published')
            /\ \A o \in Observers : id \notin IdsIn(sent'[o])]_vars

\* The progress timer of an earlier attempt has just fired for a task that
\* was cancelled while Retrying.
C6_Witness ==
    /\ last.op = "updateProgress"
    /\ last.id \in Cancelled
    /\ published = <<>>

\* The fields of a task other than the advisory estimatedWaitTime.
Visible(t) == [t EXCEPT !.estimatedWaitTime = 0]

\* The ids of the tasks that a step adds, removes or changes.
Changed ==
    {id \in StoredIds : ~HasTask(tasks', id)}
    \cup {tasks'[j].id : j \in {j \in 1 .. Len(tasks') :
             \/ ~HasTask(tasks, tasks'[j].id)
             \/ Visible(GetTask(tasks, tasks'[j].id)) # Visible(tasks'[j])}}

\* C7: what addSSEClient writes to the new observer is queue_snapshot with
\* getAllTasks() of that moment (every stored task, newest first), then
\* queue_stats, and nothing else; from then on the observer is written every
\* event that is broadcast, and every step that adds, removes or changes a
\* task broadcasts an event carrying its id.
C7_SnapshotFirst ==
    /\ [][\A o \in Observers :
            (o \notin Range(sseClients) /\ o \in Range(sseClients'))
            => /\ Len(sent'[o]) = 2
               /\ sent'[o][1] = Event("queue_snapshot", getAllTasks(tasks))
               /\ LET list == sent'[o][1].data
                  IN  /\ Len(list) = Len(tasks)
                      /\ Range(list) = Range(tasks)
                      /\ \A p, q \in 1 .. Len(list) :
                            p < q => list[p].createdAt >= list[q].createdAt
               /\ sent'[o][2] = Event("queue_stats", getStats(tasks))
               /\ tasks' = tasks]_vars
    /\ [][\A o \in Observers :
            (o \in Range(sseClients) /\ o \in Range(sseClients'))
            => /\ sent'[o] = published'
               /\ Changed \subseteq IdsIn(sent'[o])]_vars

\* An observer has just subscribed and was written a snapshot of two tasks,
\* the newer one first.
C7_Witness ==
    /\ last.op = "addSSEClient"
    /\ \E o \in Observers :
          /\ Len(sent[o]) = 2
          /\ Len(sent[o][1].data) = 2
          /\ sent[o][1].data[1].createdAt > sent[o][1].data[2].createdAt

\* C11 as stated: in every reachable state a task in Completed has
\* progress = 100 and a result that is not null (also a task that failed on
\* an earlier attempt because fetch() was rejected, was promoted, dispatched
\* again and then succeeded).
C11_CompletedIsFull ==
    \A i \in Stored :
        tasks[i].state = "completed"
        => tasks[i].progress = 100 /\ tasks[i].result # Null

\* C12 as stated: when the write to one observer raises, every other
\* registered observer is still written every event of the handler, and the
\* handler has the effect it has without the failure, once: the task is
\* stored, removed, left in Processing by a dispatch, or Completed by a
\* successful execution (not routed into failTask), and the slot counter
\* still counts the tasks in Processing.
C12_DeliveryFailureIsolated ==
    [][last'.ret = "throws"
       => LET id == last'.id
              b == last'.arg
          IN  /\ \A o \in Range(sseClients) \ {b} : sent'[o] = published'
              /\ currentlyProcessing' = CountState(tasks', "processing")
              /\ last'.op = "createTask" => HasTask(tasks', id)
              /\ last'.op = "cancelTask" => ~HasTask(tasks', id)
              /\ last'.op = "processNextTask"
                    => GetTask(tasks', id).state = "processing"
              /\ last'.op = "settle"
                    => /\ GetTask(tasks', id).state = "completed"
                       /\ GetTask(tasks', id).error = "null"
                       /\ currentlyProcessing' = currentlyProcessing - 1]_vars

\* C13: the events a handler publishes are written once each, in the order
\* of emission, to every observer registered when it runs, and to no other:
\* not to one that has disconnected, and not to one that subscribes later
\* (which is written its snapshot and stats only, by a step that publishes
\* nothing).  Hence two registered observers are written the same sequence.
C13_DeliveredToRegistered ==
    [][/\ \A o \in Observers \ Range(sseClients) :
            /\ o \notin Range(sseClients') => sent'[o] = <<>>
            /\ o \in Range(sseClients')
                  => /\ published' = <<>>
                     /\ {sent'[o][k].type : k \in 1 .. Len(sent'[o])}
                           = {"queue_snapshot", "queue_stats"}
       /\ \A o \in Range(sseClients) :
            /\ o \in Range(sseClients') => sent'[o] = published'
            /\ o \notin Range(sseClients') => sent'[o] = <<>> /\ published' = <<>>
       /\ \A o1, o2 \in Range(sseClients) \cap Range(sseClients') :
            sent'[o1] = sent'[o2]]_vars

\* A task has just completed while o1 was registered and o2 was not: the
\* three events were written to o1 in order and nothing to o2.
C13_Witness ==
    /\ last.op = "completeTask"
    /\ Len(published) = 3
    /\ Range(sseClients) = {"o1"}
    /\ sent["o1"] = published
    /\ sent["o2"] = <<>>

\* C14 as stated: while the worker is stopped no task is dispatched or
\* promoted, and an execution that settles is ignored: the store and the slot
\* counter stay as they are and no event is published.
C14_StoppedWorkerIsInert ==
    [][(/\ ~isRunning
        /\ last'.op \in {"processNextTask", "checkRetries", "completeTask",
                         "failTask", "updateProgress"})
       => /\ tasks' = tasks
          /\ currentlyProcessing' = currentlyProcessing
          /\ published' = <<>>]_vars

\* C15: a dispatch cycle that finds a free slot and a Pending task moves
\* one of the oldest Pending tasks (by createdAt) to Processing and touches
\* no other task; a cycle that finds every slot taken, or no Pending task,
\* changes nothing.  A Pending task leaves Pending only by being dispatched
\* or cancelled.  So with more Pending tasks than slots and no settlement
\* exactly MAX_CONCURRENT tasks come to Processing, the rest wait, and the
\* oldest of them is dispatched once a slot is free again.
C15_DispatchUpToCap ==
    /\ [][last'.op = "processNextTask"
          => IF /\ CountState(tasks, "processing") < MAX_CONCURRENT
                /\ CountState(tasks, "pending") > 0
             THEN /\ last'.ret = "started"
                  /\ Len(tasks') = Len(tasks)
                  /\ \E i \in Stored :
                        /\ tasks[i].id = last'.id
                        /\ tasks[i].state = "pending"
                        /\ \A j \in Stored :
                              tasks[j].state = "pending"
                              => tasks[i].createdAt <= tasks[j].createdAt
                        /\ tasks'[i].state = "processing"
                        /\ \A j \in Stored \ {i} : tasks'[j] = tasks[j]
             ELSE /\ tasks' = tasks
                  /\ published' = <<>>]_vars
    /\ [][\A i \in Stored :
            (/\ tasks[i].state = "pending"
             /\ \A j \in 1 .. Len(tasks') :
                   tasks'[j].id = tasks[i].id => tasks'[j].state # "pending")
            => last'.op \in {"processNextTask", "cancelTask"}]_vars

\* The third task waited while the two slots were taken, and has just been
\* dispatched after one of the first two left Processing.
C15_Witness ==
    /\ last.op = "processNextTask" /\ last.ret = "started" /\ last.id = NumIds
    /\ CountState(tasks, "processing") = MAX_CONCURRENT
    /\ Len(tasks) = MAX_CONCURRENT + 1
    /\ \E i \in Stored : tasks[i].state \in {"completed", "failed", "retrying"}

\* C16 as stated: the error generateImage throws is marked retryable for
\* the timeout, for every connection failure, for status 429 and for every
\* status from 500 to 599, and marked permanent for 400, 401, 403 and 404.
C16_ClassifierPolicy ==
    last.op = "generateImage"
    => LET outcome == last.arg
           error == last.ret
       IN  /\ outcome.kind \in {"abort", "reject"} => error.isRetryable = "true"
           /\ (outcome.kind = "http" /\ outcome.status = 429)
                 => error.isRetryable = "true"
           /\ (outcome.kind = "http" /\ outcome.status \in 500 .. 599)
                 => error.isRetryable = "true"
           /\ (outcome.kind = "http" /\ outcome.status \in {400, 401, 403, 404})
                 => error.isRetryable = "false"

\* C17 as stated: a failed execution whose error generateImage did not mark
\* retryable (marked permanent, or not marked at all) moves the task from
\* Processing to Failed at once: retryCount stays and no retry is scheduled.
C17_OnlyMarkedRetryableRetried ==
    [][\A i \in Stored :
          (last'.op = "failTask" /\ last'.id = tasks[i].id)
          => LET marked ==
                    \E outcome \in Settlements \ {Image} :
                        /\ thrownError(outcome).isRetryable = "true"
                        /\ thrownError(outcome).code = tasks'[i].error
             IN  ~marked
                 => /\ tasks[i].state = "processing"
                    /\ tasks'[i].state = "failed"
                    /\ tasks'[i].retryCount = tasks[i].retryCount
                    /\ tasks'[i].nextRetryAt = Null]_vars

\* C18: with the loops firing and every execution settling, a task that is
\* stored is eventually Completed or Failed unless it is cancelled, and a
\* task that is Completed or Failed keeps that state for as long as it is
\* stored.
C18_EveryTaskSettles ==
    /\ \A id \in Ids :
          [](HasTask(tasks, id)
             => <>(\/ ~HasTask(tasks, id)
                   \/ GetTask(tasks, id).state \in {"completed", "failed"}))
    /\ [][\A i \in Stored :
            (tasks[i].state \in {"completed", "failed"} /\ HasTask(tasks', tasks[i].id))
            => GetTask(tasks', tasks[i].id).state = tasks[i].state]_vars

\* A task is Failed after it used up its retries: six failed attempts.
C18_Witness ==
    \E i \in Stored :
        /\ tasks[i].state = "failed"
        /\ tasks[i].retryCount = MAX_RETRIES

\* C19: the slot counter currentlyProcessing equals the number of stored
\* tasks in state processing in every reachable state; it is never negative,
\* and a step changes it by one exactly when one task enters or leaves
\* Processing.
C19_SlotsCountProcessing ==
    /\ [](/\ currentlyProcessing = Cardinality({i \in Stored : tasks[i].state = "processing"})
          /\ currentlyProcessing >= 0)
    /\ [][LET entered == {id \in StoredIds' :
                              /\ GetTask(tasks', id).state = "processing"
                              /\ ~(HasTask(tasks, id) /\ GetTask(tasks, id).state = "processing")}
              left == {id \in StoredIds :
                           /\ GetTask(tasks, id).state = "processing"
                           /\ ~(HasTask(tasks', id) /\ GetTask(tasks', id).state = "processing")}
          IN  /\ Cardinality(entered) + Cardinality(left) <= 1
              /\ currentlyProcessing' =
                    currentlyProcessing + Cardinality(entered) - Cardinality(left)]_vars

\* One of two Processing tasks has just settled: one slot released, one held.
C19_Witness ==
    /\ last.op \in {"completeTask", "failTask"}
    /\ currentlyProcessing = 1
    /\ \E i \in Stored : tasks[i].state = "processing"
    /\ \E i \in Stored : tasks[i].id = last.id /\ tasks[i].state # "processing"

\* The edges of the task state machine.
Edges ==
    {<<"pending", "processing">>, <<"processing", "completed">>,
     <<"processing", "retrying">>, <<"processing", "failed">>,
     <<"retrying", "pending">>}

\* C20: a task is stored as pending, and every change of the state of a
\* stored task follows one of the five edges; so no task leaves completed or
\* failed for another state, and processing is entered from pending only.
C20_OnlyMachineEdges ==
    [][/\ \A id \in StoredIds' \ StoredIds : GetTask(tasks', id).state = "pending"
       /\ \A id \in StoredIds \cap StoredIds' :
            \/ GetTask(tasks', id).state = GetTask(tasks, id).state
            \/ <<GetTask(tasks, id).state, GetTask(tasks', id).state>> \in Edges]_vars

\* A task that failed and was promoted has just been dispatched again, while
\* the progress timer of its first attempt is still live.
C20_Witness ==
    /\ last.op = "processNextTask" /\ last.ret = "started"
    /\ \E i \in Stored :
          /\ tasks[i].id = last.id
          /\ tasks[i].state = "processing"
          /\ tasks[i].retryCount >= 1
          /\ \E iv \in intervals : iv.id = last.id /\ iv.startTime < tasks[i].startedAt

\* C21 as stated: cancelTask removes a record only when the task is pending
\* or retrying; called on a processing, completed or failed task it returns
\* false and leaves the store as it is.
C21_CancelOnlyWaitingTasks ==
    [][\A i \in Stored :
          (last'.op = "cancelTask" /\ last'.id = tasks[i].id)
          => IF tasks[i].state \in {"pending", "retrying"}
             THEN last'.ret = "true" /\ ~HasTask(tasks', tasks[i].id)
             ELSE last'.ret = "false" /\ tasks' = tasks]_vars

\* The executions in flight for a task id.
ExecutionsOf(id) == {ex \in inflight : ex.id = id}

\* C22: a dispatch claims its task in one step: it finds a free slot and the
\* task pending, and leaves it processing with the slot taken and one
\* execution started.  So every processing task has exactly one execution in
\* flight and no other task has any: no task is started twice.
C22_OneExecutionPerTask ==
    /\ [](\A id \in Ids :
            Cardinality(ExecutionsOf(id))
               = IF HasTask(tasks, id) /\ GetTask(tasks, id).state = "processing"
                 THEN 1 ELSE 0)
    /\ [][(last'.op = "processNextTask" /\ last'.ret = "started")
          => /\ HasTask(tasks, last'.id)
             /\ GetTask(tasks, last'.id).state = "pending"
             /\ ExecutionsOf(last'.id) = {}
             /\ currentlyProcessing < MAX_CONCURRENT
             /\ currentlyProcessing' = currentlyProcessing + 1
             /\ GetTask(tasks', last'.id).state = "processing"
             /\ inflight' = inflight \cup {[id |-> last'.id, startTime |-> now]}]_vars

\* Two executions are in flight, one of them the second attempt of its task.
C22_Witness ==
    /\ Cardinality(inflight) = 2
    /\ \E i \in Stored : tasks[i].state = "processing" /\ tasks[i].retryCount >= 1
    /\ last.op = "processNextTask" /\ last.ret = "started"

\* C23 as stated: startProcessing leaves progress at 0 (as task_started
\* shows), and while a task stays processing its progress is within 0 .. 100
\* and does not decrease, on every attempt of the task.
C23_ProgressMonotonic ==
    /\ [](\A i \in Stored : tasks[i].progress \in 0 .. 100)
    /\ [][(last'.op = "processNextTask" /\ last'.ret = "started")
          => /\ published'[1].type = "task_started"
             /\ published'[1].data.progress = 0]_vars
    /\ [][\A i \in Stored :
            (/\ tasks[i].state = "processing"
             /\ HasTask(tasks', tasks[i].id)
             /\ GetTask(tasks', tasks[i].id).state = "processing")
            => GetTask(tasks', tasks[i].id).progress >= tasks[i].progress]_vars

\* C24 as stated: once startedAt, or completedAt, of a stored task is set,
\* it never changes again (a second attempt keeps the first startedAt).
C24_TimestampsSetOnce ==
    [][\A i \in Stored :
          HasTask(tasks', tasks[i].id)
          => /\ tasks[i].startedAt # Null
                   => GetTask(tasks', tasks[i].id).startedAt = tasks[i].startedAt
             /\ tasks[i].completedAt # Null
                   => GetTask(tasks', tasks[i].id).completedAt = tasks[i].completedAt]_vars

\* C25: in every reachable state a task has a result exactly when it is
\* completed; a completed task has no error; a failed task has an error and
\* no result; and a result that is set is never changed.
C25_ResultIffCompleted ==
    /\ [](\A i \in Stored :
            /\ tasks[i].result # Null <=> tasks[i].state = "completed"
            /\ tasks[i].state = "completed" => tasks[i].error = "null"
            /\ tasks[i].state = "failed"
                  => tasks[i].error # "null" /\ tasks[i].result = Null)
    /\ [][\A i \in Stored :
            (tasks[i].result # Null /\ HasTask(tasks', tasks[i].id))
            => GetTask(tasks', tasks[i].id).result = tasks[i].result]_vars

\* A task has completed on a later attempt, after an attempt that failed
\* and recorded an error.
C25_Witness ==
    /\ last.op = "completeTask"
    /\ \E i \in Stored :
          /\ tasks[i].state = "completed"
          /\ tasks[i].retryCount >= 1
          /\ tasks[i].result # Null

\* C26: in every reachable state nextRetryAt of a task is set exactly when
\* the task is retrying, and a pending task has no error: the error of a
\* failed attempt is cleared when the task is requeued.
C26_RetryFieldsMatchState ==
    \A i \in Stored :
        /\ tasks[i].nextRetryAt # Null <=> tasks[i].state = "retrying"
        /\ tasks[i].state = "pending" => tasks[i].error = "null"

\* checkRetries has just requeued a task that had failed: pending again.
C26_Witness ==
    /\ last.op = "checkRetries"
    /\ \E i \in Stored :
          /\ tasks[i].state = "pending"
          /\ tasks[i].retryCount >= 1
          /\ tasks[i].nextRetryAt = Null

\* C27: a retrying task becomes pending only in a checkRetries step and only
\* when the clock has reached its nextRetryAt; checkRetries requeues exactly
\* the retrying tasks with nextRetryAt <= now (state pending, nextRetryAt and
\* error cleared) and leaves every other task as it is.
C27_PromotionOnlyWhenDue ==
    /\ [][\A i \in Stored :
            (/\ tasks[i].state = "retrying"
             /\ HasTask(tasks', tasks[i].id)
             /\ GetTask(tasks', tasks[i].id).state # "retrying")
            => /\ last'.op = "checkRetries"
               /\ now >= tasks[i].nextRetryAt
               /\ GetTask(tasks', tasks[i].id).state = "pending"]_vars
    /\ [][last'.op = "checkRetries"
          => /\ Len(tasks') = Len(tasks)
             /\ \A i \in Stored :
                   tasks'[i] = IF /\ tasks[i].state = "retrying"
                                  /\ tasks[i].nextRetryAt <= now
                               THEN [tasks[i] EXCEPT !.state = "pending",
                                                     !.nextRetryAt = Null,
                                                     !.error = "null"]
                               ELSE tasks[i]]_vars

\* checkRetries has just requeued a task that was due and left another
\* retrying task, not yet due, alone.
C27_Witness ==
    /\ last.op = "checkRetries"
    /\ \E i \in Stored : tasks[i].state = "pending" /\ tasks[i].retryCount >= 1
    /\ \E i \in Stored : tasks[i].state = "retrying" /\ tasks[i].nextRetryAt > now

\* Where a task stands in its event stream, read off the store: the state of
\* its record, "absent" before createTask, "cancelled" once removed.
PhaseOf(id) ==
    IF HasTask(tasks, id) THEN GetTask(tasks, id).state
    ELSE IF id \in usedIds THEN "cancelled" ELSE "absent"

\* The phase after one more event of the task, "broken" when the event is
\* out of order.
AfterEvent(phase, type) ==
    CASE type = "task_cancelled" ->
            IF phase \in {"absent", "cancelled", "broken"} THEN "broken" ELSE "cancelled"
      [] type = "task_submitted" ->
            IF phase = "absent" THEN "pending" ELSE "broken"
      [] type = "task_started" ->
            IF phase = "pending" THEN "processing" ELSE "broken"
      [] type = "task_progress" ->
            IF phase = "processing" THEN "processing" ELSE "broken"
      [] type = "task_completed" ->
            IF phase = "processing" THEN "completed" ELSE "broken"
      [] type = "task_failed" ->
            IF phase = "processing" THEN "failed" ELSE "broken"
      [] type = "task_retry_scheduled" ->
            IF phase = "processing" THEN "retrying" ELSE "broken"
      [] type = "task_requeued" ->
            IF phase = "retrying" THEN "pending" ELSE "broken"
      [] OTHER -> phase

\* The phase of task id after the events from the k-th on.
RECURSIVE AfterEvents(_, _, _, _)
AfterEvents(phase, events, k, id) ==
    IF k > Len(events) THEN phase
    ELSE AfterEvents(IF id \in EventIds(events[k])
                     THEN AfterEvent(phase, events[k].type) ELSE phase,
                     events, k + 1, id)

\* C28: the events one handler broadcasts for a task continue the task's
\* stream in order: task_submitted first, task_started from Pending,
\* task_progress and the outcome event (task_completed, task_failed,
\* task_retry_scheduled) only while the attempt is open, task_requeued only
\* after task_retry_scheduled, nothing but task_cancelled after a terminal
\* event.
C28_EventOrder ==
    [][\A id \in Ids : AfterEvents(PhaseOf(id), published', 1, id) # "broken"]_vars

\* The methods that look the task up by id, with what each returns when the
\* id is not stored.
NotFound ==
    [startProcessing |-> "null", completeTask |-> "null", failTask |-> "null",
     requeueForRetry |-> "null", updateProgress |-> "undefined",
     cancelTask |-> "false"]

\* C29: startProcessing, completeTask, failTask, requeueForRetry,
\* updateProgress and cancelTask called with an id that is not stored return
\* null, undefined or false and leave every stored task, the slot counter
\* and every observer's stream as they were: nothing is broadcast.
C29_UnknownIdIsNoOp ==
    [][(last'.op \in DOMAIN NotFound /\ ~HasTask(tasks, last'.id))
       => /\ last'.ret = NotFound[last'.op]
          /\ tasks' = tasks
          /\ currentlyProcessing' = currentlyProcessing
          /\ published' = <<>>
          /\ \A o \in Observers : sent'[o] = <<>>]_vars

\* failTask has just been called with an id that is not stored, while a task
\* holds a slot and an observer is subscribed.
C29_Witness ==
    /\ last.op = "failTask"
    /\ ~HasTask(tasks, last.id)
    /\ last.ret = "null"
    /\ currentlyProcessing >= 1
    /\ CountState(tasks, "processing") >= 1
    /\ Len(sseClients) >= 1

\* C30: when failTask moves a task from Processing to Retrying it increments
\* retryCount and sets nextRetryAt to the failure time plus
\* calculateBackoff(the incremented retryCount): nominally 2000 ms for the
\* first retry, and for retry k + 1 (k in 1 .. maxRetries - 1) a delay
\* strictly greater than any delay retry k can get, whatever the two jitter
\* draws.
C30_BackoffGrows ==
    [][\A i \in Stored :
          (/\ last'.op = "failTask" /\ last'.id = tasks[i].id
           /\ tasks[i].state = "processing"
           /\ GetTask(tasks', tasks[i].id).state = "retrying")
          => LET k == tasks[i].retryCount
                 after == GetTask(tasks', tasks[i].id)
                 delay == after.nextRetryAt - DateNow
             IN  /\ after.retryCount = k + 1
                 /\ \E r \in 0 .. RandDenom - 1 : delay = calculateBackoff(k + 1, r)
                 /\ k = 0 => 4 * delay >= 3 * 2000 /\ 4 * delay <= 5 * 2000
                 /\ k >= 1 => /\ k \in 1 .. tasks[i].maxRetries - 1
                              /\ \A r \in 0 .. RandDenom - 1 :
                                    delay > calculateBackoff(k, r)]_vars

\* failTask has just scheduled the last retry the task is allowed, with the
\* smallest jitter.
C30_Witness ==
    /\ last.op = "failTask"
    /\ \E i \in Stored :
          /\ tasks[i].id = last.id
          /\ tasks[i].state = "retrying"
          /\ tasks[i].retryCount = tasks[i].maxRetries
          /\ tasks[i].nextRetryAt = DateNow + calculateBackoff(tasks[i].retryCount, 0)

\* The queue_stats payloads among the events written to one observer.
StatsIn(events) ==
    SelectSeq(events, LAMBDA e : e.type = "queue_stats")

----------------------------------------------------------------------------
(* The front end (frontend/app.js): state.tasks of one browser, as the     *)
(* handlers of connectSSE keep it.  The list holds the task objects the    *)
(* events carried, newest first.                                           *)

\* A faulty variant: the task is put in front without looking for its id.
addOrUpdateTask_Mutant(list, task) ==
    <<task>> \o list

\* addOrUpdateTask: findIndex by id, replace in place or unshift.
addOrUpdateTask(list, task) ==
    IF HasTask(list, task.id)
    THEN [list EXCEPT ![IndexOf(list, task.id)] = task]
    ELSE <<task>> \o list

\* updateTaskProgress: find by id and set progress, if the task is listed.
updateTaskProgress(list, taskId, progress) ==
    IF HasTask(list, taskId)
    THEN [list EXCEPT ![IndexOf(list, taskId)].progress = progress]
    ELSE list

\* The listener of one event type, applied to state.tasks.
onEvent(list, e) ==
    CASE e.type = "queue_snapshot" -> e.data
      [] e.type \in {"task_submitted", "task_started", "task_completed",
                     "task_failed", "task_requeued"} ->
            addOrUpdateTask(list, e.data)
      [] e.type = "task_progress" ->
            updateTaskProgress(list, e.data.id, e.data.progress)
      [] e.type = "task_retry_scheduled" ->
            IF HasTask(list, e.data.id)
            THEN [list EXCEPT ![IndexOf(list, e.data.id)] =
                     [@ EXCEPT !.state = "retrying",
                               !.retryCount = e.data.retryCount,
                               !.maxRetries = e.data.maxRetries,
                               !.nextRetryAt = e.data.nextRetryAt,
                               !.error = e.data.error]]
            ELSE list
      [] e.type = "task_cancelled" ->
            SelectSeq(list, LAMBDA t : t.id # e.data.id)
      [] OTHER -> list

\* state.tasks after the events from the k-th on have been dispatched.
RECURSIVE onEvents(_, _, _)
onEvents(list, events, k) ==
    IF k > Len(events) THEN list
    ELSE onEvents(onEvent(list, events[k]), events, k + 1)

\* What the front end shows of a task.
Shown(t) ==
    [id |-> t.id, state |-> t.state, retryCount |-> t.retryCount,
     nextRetryAt |-> t.nextRetryAt, error |-> t.error, progress |-> t.progress]

\* C32: an observer that applies the front-end handlers to the events it is
\* delivered holds, after the events of every handler, exactly the stored
\* ids, once each, with the stored state, retryCount, nextRetryAt, error and
\* progress.  Stated as a step: a subscribed observer whose list agreed with
\* the store before the handler agrees with it after; an observer that has
\* just connected starts from an empty list.
C32_FrontEndMirrorsStore ==
    [][\A o \in Range(sseClients') :
          LET before == IF o \in Range(sseClients) THEN tasks ELSE <<>>
              list == onEvents(before, sent'[o], 1)
          IN  /\ Len(list) = Len(tasks')
              /\ {Shown(list[k]) : k \in 1 .. Len(list)}
                    = {Shown(tasks'[k]) : k \in 1 .. Len(tasks')}]_vars

\* A subscribed observer has just patched one of two listed tasks from a
\* task_retry_scheduled event.
C32_Witness ==
    /\ last.op = "failTask"
    /\ Len(tasks) = 2
    /\ \E o \in Range(sseClients) :
          \E k \in 1 .. Len(sent[o]) : sent[o][k].type = "task_retry_scheduled"

\* C33: a task keeps its createdAt for as long as it is stored, through the
\* Retrying -> Pending promotion too, and a dispatch claims a Pending task
\* that no other Pending task precedes, whether by createdAt or by the order
\* of submission (the order of the store): a task submitted later is never
\* dispatched while an earlier one is Pending.
C33_PromotedKeepsItsTurn ==
    /\ [][\A i \in Stored :
            HasTask(tasks', tasks[i].id)
            => GetTask(tasks', tasks[i].id).createdAt = tasks[i].createdAt]_vars
    /\ [][(last'.op = "processNextTask" /\ last'.id # 0)
            => \E i \in PendingTasks :
                  /\ tasks[i].id = last'.id
                  /\ tasks'[i].state = "processing"
                  /\ \A j \in PendingTasks :
                        j >= i /\ tasks[j].createdAt >= tasks[i].createdAt]_vars

\* Dispatch has just claimed a task that was promoted from Retrying, while
\* a task submitted after it is still Pending.
C33_Witness ==
    /\ last.op = "processNextTask" /\ last.id # 0
    /\ \E i, j \in Stored :
          /\ tasks[i].id = last.id /\ tasks[i].state = "processing"
          /\ tasks[i].retryCount >= 1
          /\ i < j
          /\ tasks[j].state = "pending" /\ tasks[j].retryCount = 0
          /\ tasks[j].createdAt > tasks[i].createdAt

====
